---- MODULE Spec2Model ----
(***************************************************************************)
(* Model of composetest/app.py: the Flask route hello() and the bounded    *)
(* retry loop get_hit_count() around cache.incr('hits').                    *)
(*                                                                         *)
(* Each worker of Procs serves requests one after the other; different     *)
(* workers interleave freely (Flask may dispatch requests on threads).     *)
(* The only shared program state is the remote counter `hits`.             *)
(*                                                                         *)
(* The store is the environment and another process: cache.incr('hits') is *)
(* a blocking round trip, and other workers run between the moment the     *)
(* store executes INCR and the moment the outcome reaches the caller.      *)
(* One cache.incr('hits') ends in one of:                                  *)
(*   - a reply: INCR was applied, the post-increment integer is returned;  *)
(*   - redis.exceptions.ConnectionError with the command never applied     *)
(*     (the store is unreachable, connect() is refused);                   *)
(*   - redis.exceptions.ConnectionError with the command applied (the      *)
(*     connection drops after the store executed INCR, the reply is lost); *)
(*   - another error class (ResponseError, e.g. WRONGTYPE), not applied.   *)
(***************************************************************************)
EXTENDS Integers, Sequences, FiniteSets, TLC

\* ------------------------------------------------------------------ bounds
\* requests each worker serves in the concurrent specification
MaxRequests == 1
\* requests the single worker serves in the sequential specification
MaxSeqRequests == 3
\* the sequential specification starts the counter at 0 or at this value
\* (9: the next reply has two digits)
MaxInitHits == 9
\* replies the store loses after applying the increment, over a whole run of
\* the concurrent specification
MaxLost == 1
\* the same, over a whole run of the sequential specification
MaxSeqLost == 3

\* --------------------------------------------------------------- constants
\* variant: one retry less
InitialRetriesFour == 5 - 1
\* variant: one retry more
InitialRetriesSix == 5 + 1
\* retries = 5
InitialRetries == 5
\* variant: time.sleep(0.05)
SleepMsShort == 500 \div 10
\* time.sleep(0.5), in milliseconds
SleepMs == 500

Procs == {"w1", "w2"}
SeqProc == "w1"

\* what socket.gethostname() / socket.gethostbyname() can give
HostNames == {"web"}
Addresses == {"172.18.0.3"}

NoValue == "None"
\* marks an integer local that holds no value (no counter value is negative)
NoCount == 0 - 1
NoExc == [kind |-> "none", at |-> 0, applied |-> FALSE]

\* ---------------------------------------------------------------- helpers
DigitChar == <<"0", "1", "2", "3", "4", "5", "6", "7", "8", "9">>

RECURSIVE NatStr(_)
\* decimal digits of a natural number, most significant first
NatStr(n) == IF n < 10 THEN <<DigitChar[n + 1]>>
             ELSE NatStr(n \div 10) \o <<DigitChar[(n % 10) + 1]>>

\* str(count) as the f-string renders an int
IntStr(n) == IF n < 0 THEN <<"-">> \o NatStr(0 - n) ELSE NatStr(n)

\* variant: the increment is issued with amount 2
IncrByTwo(h) == h + 2

\* the redis INCR primitive on the key 'hits' (increment by one)
Incr(h) == h + 1

\* variant: a bare `except Exception` that catches every class
CaughtAny(e) == TRUE

\* except redis.exceptions.ConnectionError: the only class caught
Caught(e) == e.kind = "ConnectionError"

\* variant: gives up one retry early (retries <= 1)
ExhaustedEarly(r) == r <= 1

\* variant: gives up one retry late (retries < 0)
ExhaustedLate(r) == r < 0

\* if retries == 0: raise exc
Exhausted(r) == r = 0

\* variant: retries -= 2
DecrementByTwo(r) == r - 2

\* retries -= 1
Decrement(r) == r - 1

\* variant: the assignment is missing, the call runs on what was left behind
RetriesAtEntryStale(stale) == stale

\* retries = 5 at the top of every call; `stale` is whatever an earlier
\* frame left behind, which the assignment ignores
RetriesAtEntry(stale) == InitialRetries

\* variant: hello() swallows the exception and answers with a message
PropagateSwallowed(e) == [kind |-> "return", body |-> <<"counter unavailable">>]

\* hello() and get_hit_count() have no handler for e: the exception leaves
\* hello() as it is
Propagate(e) == [kind |-> "raise", exc |-> e]

\* variant: the message reports the count before this visit
return_msgOffByOne(h, ip, c) ==
    <<"Hostname: ", h, "<br/>">>
    \o <<"IP Address: ", ip, "<br/>">>
    \o <<"I have been seen ">> \o IntStr(c - 1) \o <<" times.<br/>">>

\* the f-string of hello(): three lines joined without separator
return_msg(h, ip, c) ==
    <<"Hostname: ", h, "<br/>">>
    \o <<"IP Address: ", ip, "<br/>">>
    \o <<"I have been seen ">> \o IntStr(c) \o <<" times.<br/>">>

\* variant: lines 24 and 25 swapped, the counter is incremented before the
\* host name is resolved
NextStatementSwapped(done) ==
    CASE done = "gethostname" -> "call"
      [] done = "call" -> "gethostbyname"
      [] done = "gethostbyname" -> "format"

\* the order of the statements of hello(): gethostname (line 23), then
\* gethostbyname (line 24), then the call of get_hit_count (line 25), then
\* the f-string (line 27)
NextStatement(done) ==
    CASE done = "gethostname" -> "gethostbyname"
      [] done = "gethostbyname" -> "call"
      [] done = "call" -> "format"

\* what the route decorator's framework makes of hello()'s outcome
Respond(res) ==
    IF res.kind = "return"
    THEN [status |-> 200, body |-> res.body]
    ELSE [status |-> 500, body |-> <<"Internal Server Error">>]

\* ------------------------------------------------------------------ state
VARIABLES
    hits,        \* the remote counter, key 'hits' of the store
    pc,          \* per worker: position in hello() / get_hit_count()
    reqLeft,     \* per worker: requests still to be served (bound)
    lostLeft,    \* replies the store may still lose after applying (bound)
    hostname,    \* per worker: local of hello()
    ip_address,  \* per worker: local of hello()
    count,       \* per worker: local of hello(), the value get_hit_count returned
    retries,     \* per worker: local of get_hit_count()
    exc,         \* per worker: the exception bound by `except ... as exc`
    inflight,    \* per worker: what the store did with the pending cache.incr
    result,      \* per worker: how hello() ended (return body / raise exc)
    response,    \* per worker: the response of the last finished request
    attempts,    \* history: cache.incr calls issued by the current call
    sleeps,      \* history: time.sleep calls made by the current call
    blocked,     \* history: milliseconds the current call spent in time.sleep
    lost,        \* history: increments of the current call applied, reply lost
    startHits,   \* history: value of hits when the current call started
    hits0,       \* history: initial value of hits
    applied,     \* history: increments the store applied so far
    returned,    \* history: values returned by successful calls so far
    nOk,         \* history: number of successful calls so far
    prevRet,     \* history: value returned by the latest successful call
    faultSince,  \* history: a connection failure happened since prevRet was set
    served,      \* history: number of finished requests
    clean,       \* history: no request has met any failure so far
    nExhausted   \* history: calls that gave up after using the whole budget

vars == <<hits, pc, reqLeft, lostLeft, inflight, hostname, ip_address, count, retries, exc, result,
          response, attempts, sleeps, blocked, lost, startHits, hits0, applied,
          returned, nOk, prevRet, faultSince, served, clean, nExhausted>>

locals == <<hostname, ip_address, count, retries, exc, result>>
callHist == <<attempts, sleeps, blocked, lost, startHits>>
seqHist == <<prevRet, faultSince, served, clean>>
storeHist == <<applied, returned, nOk>>

\* variant: the client reads the counter when the call starts and writes
\* that value plus one back (read-modify-write outside the store)
IncrOperandStale(p) == startHits[p]

\* INCR runs inside the store, atomically, on the value the key holds at that
\* moment
IncrOperand(p) == hits

NoResult == [kind |-> "none"]
\* no cache.incr of the worker is under way in the store
NoReply == [kind |-> "none", value |-> NoCount]
NoResponse == [status |-> 0, body |-> <<>>]

InitWith(budget, faults, starts) ==
    /\ hits0 \in starts
    /\ hits = hits0
    /\ pc = [p \in Procs |-> "idle"]
    /\ reqLeft = budget
    /\ lostLeft = faults
    /\ inflight = [p \in Procs |-> NoReply]
    /\ hostname = [p \in Procs |-> NoValue]
    /\ ip_address = [p \in Procs |-> NoValue]
    /\ count = [p \in Procs |-> NoCount]
    /\ retries = [p \in Procs |-> 0]
    /\ exc = [p \in Procs |-> NoExc]
    /\ result = [p \in Procs |-> NoResult]
    /\ response = [p \in Procs |-> NoResponse]
    /\ attempts = [p \in Procs |-> 0]
    /\ sleeps = [p \in Procs |-> 0]
    /\ blocked = [p \in Procs |-> 0]
    /\ lost = [p \in Procs |-> 0]
    /\ startHits = [p \in Procs |-> 0]
    /\ applied = 0
    /\ returned = {}
    /\ nOk = 0
    /\ prevRet = NoCount
    /\ faultSince = FALSE
    /\ served = 0
    /\ clean = TRUE
    /\ nExhausted = 0

Init == InitWith([p \in Procs |-> MaxRequests], MaxLost, {0})

InitSeq == InitWith([p \in Procs |-> IF p = SeqProc THEN MaxSeqRequests ELSE 0],
                    MaxSeqLost, {0, MaxInitHits})

\* ---------------------------------------------------------------- actions
\* a request for GET / is dispatched to worker p: hello() is entered
Request(p) ==
    /\ pc[p] = "idle"
    /\ reqLeft[p] > 0
    /\ pc' = [pc EXCEPT ![p] = "gethostname"]
    /\ UNCHANGED <<hits, reqLeft, inflight, lostLeft, locals, response, callHist, hits0, nExhausted,
                   storeHist, seqHist>>

\* hostname = socket.gethostname()
GetHostName(p) ==
    /\ pc[p] = "gethostname"
    /\ \E h \in HostNames : hostname' = [hostname EXCEPT ![p] = h]
    /\ pc' = [pc EXCEPT ![p] = NextStatement("gethostname")]
    /\ UNCHANGED <<hits, reqLeft, inflight, lostLeft, ip_address, count, retries, exc, result,
                   response, callHist, hits0, nExhausted, storeHist, seqHist>>

\* ip_address = socket.gethostbyname(hostname), resolution succeeds
Resolve(p) ==
    /\ pc[p] = "gethostbyname"
    /\ \E a \in Addresses : ip_address' = [ip_address EXCEPT ![p] = a]
    /\ pc' = [pc EXCEPT ![p] = NextStatement("gethostbyname")]
    /\ UNCHANGED <<hits, reqLeft, inflight, lostLeft, hostname, count, retries, exc, result,
                   response, callHist, hits0, nExhausted, storeHist, seqHist>>

\* socket.gethostbyname(hostname) raises socket.gaierror: hello() ends there
ResolveFails(p) ==
    /\ pc[p] = "gethostbyname"
    /\ result' = [result EXCEPT ![p] =
                    Propagate([kind |-> "gaierror", at |-> 0, applied |-> FALSE])]
    /\ pc' = [pc EXCEPT ![p] = "ended"]
    /\ clean' = FALSE
    /\ UNCHANGED <<hits, reqLeft, inflight, lostLeft, hostname, ip_address, count, retries, exc,
                   response, callHist, hits0, nExhausted, storeHist, prevRet, faultSince,
                   served>>

\* count = get_hit_count(): the call is entered, retries = 5
Call(p) ==
    /\ pc[p] = "call"
    /\ retries' = [retries EXCEPT ![p] = RetriesAtEntry(retries[p])]
    /\ startHits' = [startHits EXCEPT ![p] = hits]
    /\ pc' = [pc EXCEPT ![p] = "try"]
    /\ UNCHANGED <<hits, reqLeft, inflight, lostLeft, hostname, ip_address, count, exc, result,
                   response, attempts, sleeps, blocked, lost, hits0, nExhausted, storeHist,
                   seqHist>>

\* cache.incr('hits') is under way: the store executes INCR on the key.  The
\* reply is then on its way to the worker, or the connection drops and the
\* reply is lost; the worker is still blocked in the call
StoreIncr(p) ==
    /\ pc[p] = "try"
    /\ inflight[p] = NoReply
    /\ hits' = Incr(IncrOperand(p))
    /\ applied' = applied + 1
    /\ attempts' = [attempts EXCEPT ![p] = @ + 1]
    /\ \E drop \in BOOLEAN :
         /\ drop => lostLeft > 0
         /\ lostLeft' = IF drop THEN lostLeft - 1 ELSE lostLeft
         /\ lost' = [lost EXCEPT ![p] = IF drop THEN @ + 1 ELSE @]
         /\ inflight' = [inflight EXCEPT ![p] =
                           IF drop THEN [kind |-> "dropped", value |-> NoCount]
                           ELSE [kind |-> "reply", value |-> hits']]
    /\ UNCHANGED <<pc, reqLeft, locals, response, sleeps, blocked, startHits,
                   hits0, nExhausted, returned, nOk, seqHist>>

\* return cache.incr('hits'): the reply reaches the worker, which returns
\* the post-increment value the store sent
AttemptOk(p) ==
    /\ pc[p] = "try"
    /\ inflight[p].kind = "reply"
    /\ count' = [count EXCEPT ![p] = inflight[p].value]
    /\ returned' = returned \cup {inflight[p].value}
    /\ nOk' = nOk + 1
    /\ inflight' = [inflight EXCEPT ![p] = NoReply]
    /\ pc' = [pc EXCEPT ![p] = NextStatement("call")]
    /\ UNCHANGED <<hits, reqLeft, lostLeft, hostname, ip_address, retries, exc,
                   result, response, callHist, hits0, nExhausted, applied,
                   seqHist>>

\* what one failing cache.incr('hits') does to the worker: the raised
\* exception is either caught by the except clause or leaves hello()
Raised(p, e) ==
    IF Caught(e)
    THEN /\ exc' = [exc EXCEPT ![p] = e]
         /\ pc' = [pc EXCEPT ![p] = "except"]
         /\ UNCHANGED result
    ELSE /\ result' = [result EXCEPT ![p] = Propagate(e)]
         /\ pc' = [pc EXCEPT ![p] = "ended"]
         /\ UNCHANGED exc

\* cache.incr('hits') raises redis.exceptions.ConnectionError: either the
\* store is unreachable and the command was never applied, or the error
\* stands for a reply that was lost after the store had applied it
AttemptConnectionError(p) ==
    /\ pc[p] = "try"
    /\ \/ /\ inflight[p] = NoReply
          /\ attempts' = [attempts EXCEPT ![p] = @ + 1]
          /\ Raised(p, [kind |-> "ConnectionError", at |-> attempts[p] + 1,
                        applied |-> FALSE])
          /\ UNCHANGED inflight
       \/ /\ inflight[p].kind = "dropped"
          /\ inflight' = [inflight EXCEPT ![p] = NoReply]
          /\ Raised(p, [kind |-> "ConnectionError", at |-> attempts[p],
                        applied |-> TRUE])
          /\ UNCHANGED attempts
    /\ faultSince' = TRUE
    /\ clean' = FALSE
    /\ UNCHANGED <<hits, reqLeft, lostLeft, hostname, ip_address, count, retries,
                   response, sleeps, blocked, lost, startHits, hits0, nExhausted,
                   storeHist, prevRet, served>>

\* cache.incr('hits') raises an error of another class (ResponseError): the
\* store refuses the command and applies nothing
AttemptOtherError(p) ==
    /\ pc[p] = "try"
    /\ inflight[p] = NoReply
    /\ Raised(p, [kind |-> "ResponseError", at |-> attempts[p] + 1,
                  applied |-> FALSE])
    /\ attempts' = [attempts EXCEPT ![p] = @ + 1]
    /\ clean' = FALSE
    /\ UNCHANGED <<hits, reqLeft, lostLeft, inflight, hostname, ip_address, count,
                   retries, response, sleeps, blocked, lost, startHits, hits0,
                   nExhausted, storeHist, prevRet, faultSince, served>>

\* if retries == 0: raise exc
GiveUp(p) ==
    /\ pc[p] = "except"
    /\ Exhausted(retries[p])
    /\ result' = [result EXCEPT ![p] = Propagate(exc[p])]
    /\ nExhausted' = nExhausted + 1
    /\ pc' = [pc EXCEPT ![p] = "ended"]
    /\ UNCHANGED <<hits, reqLeft, inflight, lostLeft, hostname, ip_address, count, retries, exc,
                   response, callHist, hits0, storeHist, seqHist>>

\* retries -= 1
ConsumeRetry(p) ==
    /\ pc[p] = "except"
    /\ ~Exhausted(retries[p])
    /\ retries' = [retries EXCEPT ![p] = Decrement(@)]
    /\ pc' = [pc EXCEPT ![p] = "sleep"]
    /\ UNCHANGED <<hits, reqLeft, inflight, lostLeft, hostname, ip_address, count, exc, result,
                   response, callHist, hits0, nExhausted, storeHist, seqHist>>

\* time.sleep(0.5), then back to the top of the while loop
Sleep(p) ==
    /\ pc[p] = "sleep"
    /\ sleeps' = [sleeps EXCEPT ![p] = @ + 1]
    /\ blocked' = [blocked EXCEPT ![p] = @ + SleepMs]
    /\ pc' = [pc EXCEPT ![p] = "try"]
    /\ UNCHANGED <<hits, reqLeft, inflight, lostLeft, locals, response, attempts, lost, startHits,
                   hits0, nExhausted, storeHist, seqHist>>

\* return_msg = (f"..."); return return_msg
Format(p) ==
    /\ pc[p] = "format"
    /\ result' = [result EXCEPT ![p] =
                    [kind |-> "return",
                     body |-> return_msg(hostname[p], ip_address[p], count[p])]]
    /\ pc' = [pc EXCEPT ![p] = "ended"]
    /\ UNCHANGED <<hits, reqLeft, inflight, lostLeft, hostname, ip_address, count, retries, exc,
                   response, callHist, hits0, nExhausted, storeHist, seqHist>>

\* hello() is left: the framework answers the request, the frames of
\* hello() and get_hit_count() are discarded
Finish(p) ==
    /\ pc[p] = "ended"
    /\ response' = [response EXCEPT ![p] = Respond(result[p])]
    /\ reqLeft' = [reqLeft EXCEPT ![p] = @ - 1]
    /\ served' = served + 1
    /\ IF result[p].kind = "return"
       THEN prevRet' = count[p] /\ faultSince' = FALSE
       ELSE UNCHANGED <<prevRet, faultSince>>
    /\ hostname' = [hostname EXCEPT ![p] = NoValue]
    /\ ip_address' = [ip_address EXCEPT ![p] = NoValue]
    /\ count' = [count EXCEPT ![p] = NoCount]
    /\ retries' = [retries EXCEPT ![p] = 0]
    /\ exc' = [exc EXCEPT ![p] = NoExc]
    /\ result' = [result EXCEPT ![p] = NoResult]
    /\ attempts' = [attempts EXCEPT ![p] = 0]
    /\ sleeps' = [sleeps EXCEPT ![p] = 0]
    /\ blocked' = [blocked EXCEPT ![p] = 0]
    /\ lost' = [lost EXCEPT ![p] = 0]
    /\ startHits' = [startHits EXCEPT ![p] = 0]
    /\ pc' = [pc EXCEPT ![p] = "idle"]
    /\ UNCHANGED <<hits, lostLeft, inflight, hits0, nExhausted, storeHist, clean>>

Step(p) ==
    \/ Request(p)
    \/ GetHostName(p)
    \/ Resolve(p)
    \/ ResolveFails(p)
    \/ Call(p)
    \/ StoreIncr(p)
    \/ AttemptOk(p)
    \/ AttemptConnectionError(p)
    \/ AttemptOtherError(p)
    \/ GiveUp(p)
    \/ ConsumeRetry(p)
    \/ Sleep(p)
    \/ Format(p)
    \/ Finish(p)

Next == \E p \in Procs : Step(p)

\* concurrent requests on two workers
Spec == Init /\ [][Next]_vars

\* sequential requests on one worker
SpecSeq == InitSeq /\ [][Next]_vars

\* a worker that can take a step takes it: the store call returns or raises,
\* time.sleep returns, the interpreter runs the thread
FairSeq == SpecSeq /\ \A p \in Procs : WF_vars(Step(p))

\* ----------------------------------------------------------------- claims
\* positions inside get_hit_count()
InCall(p) == pc[p] \in {"try", "except", "sleep"}

\* hello() of worker p ended by raising an exception of class k
RaisedKind(p, k) ==
    /\ pc[p] = "ended"
    /\ result[p].kind = "raise"
    /\ result[p].exc.kind = k

\* C1: a call all of whose attempts fail with a connection failure makes
\* exactly 6 attempts; the 6th failure is not retried but raised, the
\* exception raised is the very one the 6th attempt produced, and the call
\* hands no value to its caller.
C1_ExhaustionAfterSix ==
    \A p \in Procs :
      /\ pc[p] = "except" => (Exhausted(retries[p]) <=> attempts[p] = 6)
      /\ RaisedKind(p, "ConnectionError") =>
           /\ attempts[p] = 6
           /\ result[p].exc = exc[p]
           /\ result[p].exc.at = 6
           /\ count[p] = NoCount

C1_Witness ==
    \E p \in Procs : RaisedKind(p, "ConnectionError") /\ attempts[p] = 6

\* C2 as stated: a call that succeeds after k connection failures
\* (k in 0..5), with no other caller, returns the value the counter had when
\* the call started plus 1.
C2_StartPlusOne ==
    (pc[SeqProc] = "format" /\ attempts[SeqProc] \in 1..6)
      => count[SeqProc] = startHits[SeqProc] + 1

\* C2 amended: for every k in 0..5, after k connection failures the call
\* goes on to attempt k+1, and a call that succeeds on attempt k+1 returns the
\* counter's post-increment value, which is the value at the start of the
\* call plus 1 plus the number of failed attempts whose increment the store
\* had applied before the connection dropped.
C2_RetryRecovers ==
    /\ [](\A p \in Procs :
            (pc[p] = "format" /\ attempts[p] \in 1..6)
              => /\ count[p] = hits
                 /\ count[p] = startHits[p] + 1 + lost[p])
    /\ \A p \in Procs : \A k \in 1..5 :
         (pc[p] = "except" /\ attempts[p] = k)
           ~> (pc[p] = "try" /\ attempts[p] = k)

C2_Witness ==
    /\ pc[SeqProc] = "format"
    /\ attempts[SeqProc] = 6
    /\ lost[SeqProc] = 0
    /\ count[SeqProc] = startHits[SeqProc] + 1

\* C3: with the store reachable, sequential successful calls return values
\* that strictly increase, each exactly 1 above the value the previous
\* successful call returned.
C3_MonotonicByOne ==
    \A p \in Procs :
      (pc[p] \in {"format", "ended"} /\ count[p] # NoCount /\ prevRet # NoCount)
        => /\ count[p] > prevRet
           /\ ~faultSince => count[p] = prevRet + 1

C3_Witness ==
    \E p \in Procs :
      /\ pc[p] = "format"
      /\ served >= 2
      /\ prevRet # NoCount
      /\ ~faultSince
      /\ count[p] = prevRet + 1

\* C4: an attempt that fails with an error other than a connection failure
\* ends the call on that very attempt, whatever budget remains: the error
\* leaves hello() as raised, the except clause never binds it, the budget is
\* not decremented and no sleep is taken.
C4_OtherErrorImmediate ==
    /\ [](\A p \in Procs : exc[p].kind \in {"none", "ConnectionError"})
    /\ [][\A p \in Procs :
            (result[p].kind = "none" /\ result'[p].kind = "raise"
               /\ result'[p].exc.kind = "ResponseError")
              => /\ pc[p] = "try"
                 /\ pc'[p] = "ended"
                 /\ attempts'[p] = attempts[p] + 1
                 /\ result'[p].exc.at = attempts'[p]
                 /\ retries'[p] = retries[p]
                 /\ sleeps'[p] = sleeps[p]
                 /\ blocked'[p] = blocked[p]]_vars

C4_Witness ==
    \E p \in Procs :
      /\ RaisedKind(p, "ResponseError")
      /\ attempts[p] = 3
      /\ result[p].exc.at = 3
      /\ retries[p] = 3
      /\ sleeps[p] = 2

\* C5: every call ends, by returning a value or by raising, and issues at
\* most 6 attempts, whatever the store answers.
C5_Terminates ==
    /\ [](\A p \in Procs : attempts[p] <= 6)
    /\ \A p \in Procs : InCall(p) ~> (pc[p] \in {"format", "ended"})

C5_Witness ==
    \E p \in Procs : pc[p] = "ended" /\ attempts[p] = 6 /\ sleeps[p] = 5

\* C6: inside one call a delay lies between every two consecutive attempts:
\* after a failed attempt the budget is decremented first and the delay is
\* taken next, once, before the following attempt, so a failing call that
\* consumed n retries (n <= 5) has slept n times, at least n x 0.5 s.
C6_DelayBetweenAttempts ==
    \A p \in Procs :
      LET n == 5 - retries[p] IN
      /\ (pc[p] = "try" /\ inflight[p] = NoReply)
           => (sleeps[p] = n /\ attempts[p] = n)
      /\ (pc[p] = "try" /\ inflight[p] # NoReply)
           => (sleeps[p] = n /\ attempts[p] = n + 1)
      /\ pc[p] = "except" => (sleeps[p] = n /\ attempts[p] = n + 1)
      /\ pc[p] = "sleep" => (sleeps[p] = n - 1 /\ attempts[p] = n)
      /\ (pc[p] = "ended" /\ result[p].kind = "raise" /\ attempts[p] >= 1)
           => /\ n \in 0..5
              /\ attempts[p] = n + 1
              /\ sleeps[p] >= n
              /\ blocked[p] >= n * 500

C6_Witness ==
    \E p \in Procs :
      /\ RaisedKind(p, "ResponseError")
      /\ retries[p] = 2
      /\ sleeps[p] = 3
      /\ blocked[p] >= 1500

\* C7: with concurrent requests and the store's atomic increment, under every
\* interleaving the successful calls return pairwise distinct values, every
\* returned value lies between the initial and the current counter value, and
\* the counter equals its initial value plus the number of increments the
\* store applied.
C7_DistinctReturns ==
    /\ Cardinality(returned) = nOk
    /\ \A v \in returned : v \in (hits0 + 1)..hits
    /\ hits = hits0 + applied
    /\ \A p, q \in Procs :
         (p # q /\ count[p] # NoCount /\ count[q] # NoCount)
           => count[p] # count[q]

C7_Witness ==
    /\ \A p \in Procs : pc[p] = "format" /\ attempts[p] >= 2
    /\ nOk = 2
    /\ applied = 3
    /\ hits = hits0 + 3

\* C8: when all 6 attempts of a request fail with a connection failure,
\* hello() returns no body: the connection failure of the 6th attempt leaves
\* hello() as raised, no counter value was obtained, and the request is
\* answered with the server error, not with a 200 and a message.
C8_ExhaustionUnhandled ==
    \A p \in Procs :
      (pc[p] = "ended" /\ attempts[p] = 6
         /\ exc[p].kind = "ConnectionError" /\ exc[p].at = 6)
        => /\ result[p] = [kind |-> "raise", exc |-> exc[p]]
           /\ count[p] = NoCount
           /\ Respond(result[p]).status = 500
           /\ Respond(result[p]).body = <<"Internal Server Error">>

C8_Witness ==
    \E p \in Procs :
      /\ pc[p] = "ended"
      /\ attempts[p] = 6
      /\ exc[p].at = 6
      /\ result[p].kind = "raise"
      /\ Respond(result[p]).status = 500

\* reading a decimal numeral back
DigitVal(c) == CHOOSE d \in 0..9 : DigitChar[d + 1] = c

RECURSIVE DecVal(_)
DecVal(ds) ==
    IF ds = <<>> THEN 0
    ELSE 10 * DecVal(SubSeq(ds, 1, Len(ds) - 1)) + DigitVal(ds[Len(ds)])

\* C9: the body of a successful request reports, as a decimal numeral between
\* "I have been seen " and " times.", exactly the value its own increment
\* returned; with the store reachable and the counter initially 0, the n-th
\* sequential request reports n.
C9_BodyReportsCount ==
    \A p \in Procs :
      (pc[p] = "ended" /\ result[p].kind = "return")
        => LET body == result[p].body
               len == Len(body) IN
           /\ len >= 9
           /\ SubSeq(body, 1, 7) =
                <<"Hostname: ", hostname[p], "<br/>",
                  "IP Address: ", ip_address[p], "<br/>", "I have been seen ">>
           /\ body[len] = " times.<br/>"
           /\ DecVal(SubSeq(body, 8, len - 1)) = count[p]
           /\ Respond(result[p]) = [status |-> 200, body |-> body]
           /\ (hits0 = 0 /\ clean) => count[p] = served + 1

C9_Witness ==
    \E p \in Procs :
      /\ pc[p] = "ended"
      /\ result[p].kind = "return"
      /\ hits0 = 0
      /\ clean
      /\ served = 1
      /\ SubSeq(result[p].body, 7, 9) = <<"I have been seen ", "2", " times.<br/>">>

\* C10: the budget belongs to the call: every call starts with 5 retries
\* whatever earlier and concurrent calls did, also right after a call that
\* used its budget up: the budget left is 5 minus the connection failures of
\* the call itself, so that a call gives up only on its own 6th failure.
C10_BudgetPerCall ==
    \A p \in Procs :
      /\ (pc[p] = "try" /\ attempts[p] = 0) => retries[p] = 5
      /\ (pc[p] = "except" /\ Exhausted(retries[p]))
           => (attempts[p] = 6 /\ sleeps[p] = 5)
      /\ InCall(p) =>
           retries[p] = 5 - (IF pc[p] = "except" \/ inflight[p] # NoReply
                             THEN attempts[p] - 1
                             ELSE attempts[p])

C10_Witness ==
    \E p, q \in Procs :
      /\ p # q
      /\ pc[q] = "idle"
      /\ response[q].status = 500
      /\ nExhausted = 2
      /\ RaisedKind(p, "ConnectionError")
      /\ attempts[p] = 6

\* C11: a call that uses its whole budget up sleeps exactly 5 times, never 6:
\* the 6th consecutive connection failure raises with no further sleep, so
\* no call asks time.sleep for more than 5 x 0.5 s in all.
C11_FiveDelaysAtMost ==
    \A p \in Procs :
      /\ sleeps[p] <= 5
      /\ blocked[p] <= 2500
      /\ (pc[p] = "except" /\ attempts[p] = 6) => sleeps[p] = 5
      /\ RaisedKind(p, "ConnectionError")
           => (sleeps[p] = 5 /\ blocked[p] = 2500)

C11_Witness ==
    \E p \in Procs :
      /\ RaisedKind(p, "ConnectionError")
      /\ result[p].exc.at = 6
      /\ sleeps[p] = 5
      /\ blocked[p] = 2500

\* the call of worker p has issued at least one attempt and its frame is
\* still there
CallSeen(p) == attempts[p] >= 1 /\ pc[p] \in {"try", "except", "sleep", "format", "ended"}

\* C12 as stated: one call changes the counter by at most 1; an attempt that
\* ends in a connection failure leaves the counter unchanged, so a call that
\* succeeds after retries has raised it by exactly 1 and a call that fails by
\* exhaustion has left it unchanged.
C12_AtMostOne ==
    CallSeen(SeqProc) =>
      /\ hits - startHits[SeqProc] <= 1
      /\ pc[SeqProc] = "format" => hits = startHits[SeqProc] + 1
      /\ RaisedKind(SeqProc, "ConnectionError") => hits = startHits[SeqProc]

\* C12 amended: one call changes the counter by one for every attempt whose
\* increment the store applied.  An attempt that fails with the store
\* unreachable, or with another error class, leaves the counter unchanged; an
\* attempt whose connection drops after the store executed the increment has
\* raised it by 1.  So a call that succeeds has raised the counter by 1 plus
\* the number of its lost replies, and a call that fails has raised it by the
\* number of its lost replies; that is exactly 1, and 0, when no reply was
\* lost, and never more than the number of attempts.
C12_ChangeIsAppliedAttempts ==
    /\ [](\A p \in Procs :
            CallSeen(p) =>
              /\ lost[p] \in 0..attempts[p]
              /\ hits - startHits[p] <= attempts[p]
              /\ hits = startHits[p] + lost[p]
                          + (IF count[p] # NoCount \/ inflight[p].kind = "reply"
                             THEN 1 ELSE 0)
              /\ (pc[p] = "format" /\ lost[p] = 0) => hits = startHits[p] + 1
              /\ (RaisedKind(p, "ConnectionError") /\ lost[p] = 0)
                   => hits = startHits[p])
    /\ [][\A p \in Procs :
            /\ attempts'[p] = attempts[p] + 1 =>
                 /\ hits' - hits \in {0, 1}
                 /\ hits' = hits + 1 <=> inflight'[p] # NoReply
                 /\ pc'[p] = "except" => ~exc'[p].applied
            /\ (pc[p] = "try" /\ pc'[p] = "except") =>
                 /\ hits' = hits
                 /\ exc'[p].applied <=> inflight[p].kind = "dropped"
                 /\ exc'[p].applied => lost[p] >= 1
            /\ (pc[p] = "try" /\ pc'[p] = "ended") => hits' = hits]_vars

C12_Witness ==
    \E p \in Procs :
      /\ pc[p] = "format"
      /\ attempts[p] = 3
      /\ lost[p] = 1
      /\ hits = startHits[p] + 2

\* C13: hello() resolves the host identity before it touches the counter:
\* every attempt on the store, and so every change of the counter, comes from
\* a worker whose name resolution has succeeded; when the resolution fails
\* the failure leaves hello() at once and uncaught, the request has issued
\* no attempt and that step leaves the counter as it was.
C13_ResolveBeforeCount ==
    /\ [](\A p \in Procs :
            /\ (attempts[p] >= 1 \/ InCall(p))
                 => (hostname[p] # NoValue /\ ip_address[p] # NoValue)
            /\ RaisedKind(p, "gaierror")
                 => /\ attempts[p] = 0
                    /\ sleeps[p] = 0
                    /\ lost[p] = 0
                    /\ count[p] = NoCount
                    /\ ip_address[p] = NoValue
                    /\ Respond(result[p]).status = 500)
    /\ [][\A p \in Procs :
            (result[p].kind = "none" /\ result'[p].kind = "raise"
               /\ result'[p].exc.kind = "gaierror")
              => /\ pc[p] = "gethostbyname"
                 /\ pc'[p] = "ended"
                 /\ hits' = hits
                 /\ applied' = applied
                 /\ attempts' = attempts]_vars
    /\ [][hits' # hits =>
            \E p \in Procs : /\ attempts'[p] = attempts[p] + 1
                             /\ ip_address[p] # NoValue]_vars

C13_Witness ==
    \E p \in Procs :
      /\ RaisedKind(p, "gaierror")
      /\ hostname[p] # NoValue
      /\ ip_address[p] = NoValue
      /\ attempts[p] = 0
      /\ hits = hits0

\* C14: in every reachable state the retry budget of a call is an integer in
\* 0..5, never negative, and whenever an attempt after the first is issued
\* the attempts of the call, that one included, number 1 + (5 - budget).
C14_BudgetInRange ==
    /\ [](\A p \in Procs : retries[p] \in 0..5)
    /\ [][\A p \in Procs :
            (attempts'[p] = attempts[p] + 1 /\ attempts[p] >= 1)
              => /\ pc[p] = "try"
                 /\ retries'[p] = retries[p]
                 /\ attempts'[p] = 1 + (5 - retries[p])]_vars

C14_Witness ==
    \E p \in Procs :
      /\ pc[p] = "format"
      /\ attempts[p] = 6
      /\ retries[p] = 0

====
